---- MODULE Spec2Model ----
(***************************************************************************)
(* moltbook-cli: the credentials store (config.ts) and the API client      *)
(* (api.ts, class MoltbookApi).                                            *)
(*                                                                         *)
(* Strings are sequences of tokens.  A token is a non-empty piece of text; *)
(* the token "/" is the path separator and no other token contains a "/",  *)
(* so that the regular expression and the substring tests of the source    *)
(* can be evaluated token by token.  The empty string is << >>.            *)
(* A JavaScript value that may be undefined is << >> (undefined) or <<s>>  *)
(* (the string s).                                                         *)
(***************************************************************************)
EXTENDS Integers, Sequences, FiniteSets, TLC

\* Longest identifier / free-text argument (in tokens) handed to a public method.
MaxIdLen == 2

VARIABLES
    dirExists,  \* CONFIG_DIR exists
    file,       \* CONFIG_FILE: [kind, doc]
    env,        \* process.env.MOLTBOOK_API_KEY
    op,         \* the last config.ts call: name, argument, outcome

    client,     \* the MoltbookApi instance: [made, apiBase, apiKey]
    ctor,       \* the constructor call: its argument, the environment and getConfig() then
    pc,         \* where the caller of the client is
    call,       \* the public method being executed, with its arguments
    req,        \* the HTTP request handed to fetch
    fetches,    \* fetch calls issued for the current public-method call
    outcome,    \* what fetch produced: a response or a thrown value
    envelope,   \* what request() returned
    result,     \* what the public method returned

    cmd,        \* the command line the process was started with (none: library use)
    stdout,     \* what console.log has printed
    stderr,     \* what console.error has printed
    exit,       \* process termination: [done, code]

    savers      \* the processes inside saveConfig: where each is, what it read

configVars == <<dirExists, file, env, op>>
clientVars == <<client, ctor, pc, call, req, fetches, outcome, envelope, result>>
cliVars == <<cmd, stdout, stderr, exit>>
vars == <<dirExists, file, env, op, client, ctor, pc, call, req, fetches, outcome, envelope, result,
          cmd, stdout, stderr, exit, savers>>

----------------------------------------------------------------------------
(* JavaScript values *)

Undefined == << >>
Str(s) == <<s>>
EmptyString == << >>

\* JavaScript truthiness of a string-or-undefined value: undefined and "" are falsy.
Truthy(v) == v # Undefined /\ v[1] # EmptyString

\* haystack.includes(needle) on token sequences
Includes(haystack, needle) ==
    \E i \in 0..(Len(haystack) - Len(needle)) :
        \A k \in 1..Len(needle) : haystack[i + k] = needle[k]

----------------------------------------------------------------------------
(* config.ts *)

Fields == {"apiKey", "apiBase", "agentId", "username"}

WwwHost == <<"www.", "moltbook.com">>
DefaultApiBase == <<"https://", "www.", "moltbook.com", "/api/v1">>
BareApiBase == <<"https://", "moltbook.com", "/api/v1">>

\* The strings a field of the credentials document takes in this model.
FieldStrings(f) ==
    CASE f = "apiKey"   -> {EmptyString, <<"K1">>, <<"K2">>}
      [] f = "apiBase"  -> {DefaultApiBase, BareApiBase}
      [] f = "agentId"  -> {<<"A1">>}
      [] f = "username" -> {<<"U1">>}

AllFieldStrings == UNION {FieldStrings(f) : f \in Fields}

\* JSON objects with string members: a function from the member names present.
Docs ==
    UNION { {d \in [D -> AllFieldStrings] : \A f \in D : d[f] \in FieldStrings(f)}
            : D \in SUBSET Fields }

EmptyDoc == [f \in {} |-> EmptyString]

\* What CONFIG_FILE can be: absent; a path that cannot be opened as a file (a
\* directory, say: reading and writing both throw); text that is not JSON; JSON
\* that is no object (null, a number, a boolean: spreading it adds nothing); or
\* a JSON object.
FileStates ==
    {[kind |-> k, doc |-> EmptyDoc] : k \in {"absent", "unreadable", "invalid", "scalar"}}
    \cup {[kind |-> "object", doc |-> d] : d \in Docs}

EnvValues == {Undefined, Str(EmptyString), Str(<<"E1">>)}

\* An in-memory MoltbookConfig: every field read gives a string or undefined.
Defaults ==
    [f \in Fields |-> IF f = "apiBase" THEN Str(DefaultApiBase) ELSE Undefined]

Return(v) == [threw |-> FALSE, value |-> v]
Throw == [threw |-> TRUE, value |-> Defaults]

ExistsSync(fl) == fl.kind # "absent"

\* readFileSync(CONFIG_FILE, 'utf-8'): raises when the path cannot be read.
ReadFileSync(fl) ==
    IF fl.kind \in {"absent", "unreadable"}
    THEN [threw |-> TRUE, text |-> fl]
    ELSE [threw |-> FALSE, text |-> fl]

\* JSON.parse(text): raises on text that is not JSON.
JsonParse(text) ==
    IF text.kind = "invalid"
    THEN [threw |-> TRUE, data |-> EmptyDoc]
    ELSE [threw |-> FALSE, data |-> text.doc]

\* { ...defaults, ...data }
Spread(base, data) ==
    [f \in Fields |-> IF f \in DOMAIN data THEN Str(data[f]) ELSE base[f]]

\* A plausible slip: no try/catch around the read and the parse.
GetConfigUnguarded(fl) ==
    IF ~ExistsSync(fl) THEN Return(Defaults)
    ELSE IF ReadFileSync(fl).threw \/ JsonParse(ReadFileSync(fl).text).threw
         THEN Throw
         ELSE Return(Spread(Defaults, JsonParse(ReadFileSync(fl).text).data))

GetConfig(fl) ==
    IF ~ExistsSync(fl) THEN Return(Defaults)
    ELSE LET r == ReadFileSync(fl) IN
         IF r.threw THEN Return(Defaults)
         ELSE LET p == JsonParse(r.text) IN
              IF p.threw THEN Return(Defaults)
              ELSE Return(Spread(Defaults, p.data))

\* Partial<MoltbookConfig>: the fields named, each a string or undefined.
Partials ==
    UNION { {p \in [D -> {Undefined} \cup {Str(s) : s \in AllFieldStrings}] :
                \A f \in D : p[f] = Undefined \/ p[f][1] \in FieldStrings(f)}
            : D \in SUBSET Fields }

\* A plausible slip: the spread the other way round, { ...config, ...existing }.
MergeExistingWins(existing, partial) ==
    [f \in Fields |-> IF existing[f] # Undefined THEN existing[f]
                      ELSE IF f \in DOMAIN partial THEN partial[f] ELSE Undefined]

\* { ...existing, ...config }: every field config names overwrites, undefined too.
Merge(existing, partial) ==
    [f \in Fields |-> IF f \in DOMAIN partial THEN partial[f] ELSE existing[f]]

\* JSON.stringify(merged, null, 2): members whose value is undefined are left out.
Stringify(merged) ==
    [f \in {g \in Fields : merged[g] # Undefined} |-> merged[f][1]]

\* A plausible slip: the stored key is preferred to the environment.
GetApiKeyStoredFirst(e, fl) ==
    IF Truthy(GetConfig(fl).value["apiKey"]) THEN GetConfig(fl).value["apiKey"] ELSE e

GetApiKey(e, fl) ==
    IF Truthy(e) THEN e ELSE GetConfig(fl).value["apiKey"]

NoOp == [name |-> "none", partial |-> EmptyDoc, before |-> Defaults, hadDir |-> TRUE,
         threw |-> FALSE, ret |-> Defaults, key |-> Undefined]

\* const c = getConfig()
GetConfigCall ==
    /\ UNCHANGED savers
    /\ LET r == GetConfig(file) IN
         op' = [NoOp EXCEPT !.name = "getConfig", !.threw = r.threw, !.ret = r.value]
    /\ UNCHANGED <<dirExists, file, env>>
    /\ UNCHANGED clientVars
    /\ UNCHANGED cliVars

\* saveConfig(partial)
SaveConfigCall(partial) ==
    LET existing == GetConfig(file).value
        merged == Merge(existing, partial)
        done == [NoOp EXCEPT !.name = "saveConfig", !.partial = partial,
                             !.before = existing, !.hadDir = dirExists]
    IN  /\ dirExists' = TRUE
        /\ IF file.kind = "unreadable"
           THEN /\ file' = file
                /\ op' = [done EXCEPT !.threw = TRUE]
           ELSE /\ file' = [kind |-> "object", doc |-> Stringify(merged)]
                /\ op' = done
        /\ UNCHANGED env
        /\ UNCHANGED clientVars
        /\ UNCHANGED cliVars
        /\ UNCHANGED savers

\* const k = getApiKey()
GetApiKeyCall ==
    /\ UNCHANGED savers
    /\ op' = [NoOp EXCEPT !.name = "getApiKey", !.key = GetApiKey(env, file)]
    /\ UNCHANGED <<dirExists, file, env>>
    /\ UNCHANGED clientVars
    /\ UNCHANGED cliVars

\* saveConfig run by two processes at once. Each call is a sequence of system
\* calls: the test of CONFIG_DIR with mkdirSync, the read inside getConfig(),
\* and writeFileSync, which opens CONFIG_FILE truncating it and then writes.
Procs == {"p1", "p2"}

Other(p) == CHOOSE q \in Procs : q # p

\* A process that has not called saveConfig. after: the other call had returned
\* when this one began; order: 1 for the first write to the file, 2 for the second.
NoSaver == [pc |-> "idle", partial |-> EmptyDoc, existing |-> Defaults, after |-> FALSE,
            order |-> 0]

SaversIdle == savers = [p \in Procs |-> NoSaver]

\* The partials the two processes save.
RacePartials ==
    {[f \in {"agentId"} |-> Str(<<"A1">>)],
     [f \in {"username"} |-> Str(<<"U1">>)],
     [f \in {"apiKey"} |-> Str(<<"K2">>)]}

\* A file opened with truncation and not written yet: empty text, which is not JSON.
Truncated == [kind |-> "invalid", doc |-> EmptyDoc]
\* The bytes of two writers mixed: not JSON either.
Torn == [kind |-> "invalid", doc |-> EmptyDoc]

\* saveConfig(partial) begins: if (!existsSync(CONFIG_DIR)) mkdirSync(CONFIG_DIR)
SaveEnter(p, partial) ==
    /\ savers[p].pc = "idle"
    /\ savers' = [savers EXCEPT ![p] = [NoSaver EXCEPT !.pc = "entered", !.partial = partial,
                                                      !.after = (savers[Other(p)].pc = "done")]]
    /\ dirExists' = TRUE
    /\ UNCHANGED <<file, env, op>>
    /\ UNCHANGED clientVars
    /\ UNCHANGED cliVars

\* A plausible slip: the partial is merged over the defaults, the file not read.
SaveReadDefaults(p) ==
    /\ savers[p].pc = "entered"
    /\ savers' = [savers EXCEPT ![p].pc = "read", ![p].existing = Defaults]
    /\ UNCHANGED configVars
    /\ UNCHANGED clientVars
    /\ UNCHANGED cliVars

\* const existing = getConfig()
SaveRead(p) ==
    /\ savers[p].pc = "entered"
    /\ savers' = [savers EXCEPT ![p].pc = "read", ![p].existing = GetConfig(file).value]
    /\ UNCHANGED configVars
    /\ UNCHANGED clientVars
    /\ UNCHANGED cliVars

\* writeFileSync opens CONFIG_FILE: the file is created or emptied; a path that
\* cannot be opened raises and saveConfig ends there.
SaveOpen(p) ==
    /\ savers[p].pc = "read"
    /\ IF file.kind = "unreadable"
       THEN /\ savers' = [savers EXCEPT ![p].pc = "threw"]
            /\ file' = file
       ELSE /\ savers' = [savers EXCEPT ![p].pc = "opened"]
            /\ file' = Truncated
    /\ UNCHANGED <<dirExists, env, op>>
    /\ UNCHANGED clientVars
    /\ UNCHANGED cliVars

\* writeFileSync writes JSON.stringify(merged) from offset 0 and saveConfig
\* returns. Over an empty file the document is what the file holds; over what
\* the other process wrote since this one opened the file, the document
\* replaces it whole or leaves the end of the longer text behind it.
SaveWrite(p) ==
    /\ savers[p].pc = "opened"
    /\ LET mine == [kind |-> "object",
                    doc |-> Stringify(Merge(savers[p].existing, savers[p].partial))]
       IN  IF file.kind = "object" THEN file' \in {mine, Torn} ELSE file' = mine
    /\ savers' = [savers EXCEPT ![p].pc = "done",
                                ![p].order = IF savers[Other(p)].order > 0 THEN 2 ELSE 1]
    /\ UNCHANGED <<dirExists, env, op>>
    /\ UNCHANGED clientVars
    /\ UNCHANGED cliVars

\* The credentials files the two processes start over.
RaceFiles ==
    {[kind |-> "absent", doc |-> EmptyDoc],
     [kind |-> "invalid", doc |-> EmptyDoc],
     [kind |-> "unreadable", doc |-> EmptyDoc],
     [kind |-> "object", doc |-> [f \in {"apiKey"} |-> <<"K1">>]],
     [kind |-> "object", doc |-> [f \in {"apiKey", "username"} |->
                                     IF f = "apiKey" THEN <<"K1">> ELSE <<"U1">>]]}

----------------------------------------------------------------------------
(* api.ts: class MoltbookApi *)

NoClient == [made |-> FALSE, apiBase |-> EmptyString, apiKey |-> EmptyString]

\* Explicit keys handed to the constructor: none, or a key.
ExplicitKeys == {Undefined, Str(<<"X1">>)}

NoKeyDiagnostic == <<"Error: No API key found.",
                      "Set MOLTBOOK_API_KEY env var or run: moltbook auth <key>">>

Running == [done |-> FALSE, code |-> 0]
Exited(code) == [done |-> TRUE, code |-> code]

\* A plausible slip: the key is returned without the test for a missing one.
RequireApiKeyUnchecked(e, fl) ==
    [exited |-> FALSE,
     key |-> IF GetApiKey(e, fl) = Undefined THEN EmptyString ELSE GetApiKey(e, fl)[1],
     printed |-> EmptyString, code |-> 0]

\* requireApiKey(): the key, or the diagnostic and process.exit(1) when
\* getApiKey() is falsy.
RequireApiKey(e, fl) ==
    IF Truthy(GetApiKey(e, fl))
    THEN [exited |-> FALSE, key |-> GetApiKey(e, fl)[1], printed |-> EmptyString, code |-> 0]
    ELSE [exited |-> TRUE, key |-> EmptyString, printed |-> NoKeyDiagnostic, code |-> 1]

\* The characters (tokens) an identifier or a free-text argument is made of.
IdChars == {"x", "/", ":"}

IdStrings == UNION {[1..n -> IdChars] : n \in 0..MaxIdLen}

\* Public methods by the shape of their path.
PostIdMethods == {"getPost", "createComment", "getComments", "upvote", "removeUpvote",
                  "downvote", "deletePost"}
AgentNameMethods == {"getAgent", "follow", "unfollow"}
SubmoltNameMethods == {"getSubmolt", "subscribe", "unsubscribe"}
IdMethods == PostIdMethods \cup AgentNameMethods \cup SubmoltNameMethods \cup {"upvoteComment"}
FixedMethods == {"createPost", "getMe", "updateProfile", "getSubmolts", "createSubmolt",
                 "checkDms", "getConversations", "sendDm", "register", "getStatus"}
Sorts == {"hot", "new"}
Limits == {5, 25}
\* search(query, type = 'all', limit = 20): the types and limits a caller passes,
\* and the query texts (identifier-like strings and texts with a space).
SearchTypes == {"all", "posts"}
SearchLimits == {10, 20}
QueryTexts == IdStrings \cup {<<"agent", " ", "memory">>, <<" ">>, <<"x", " ", "/">>}

NoCall == [m |-> "none", a |-> EmptyString, opt |-> Undefined, sort |-> "hot", limit |-> 0,
           type |-> "all"]

\* The calls a caller makes: a method and its arguments (those that reach the URL).
Calls ==
    {[NoCall EXCEPT !.m = m, !.a = a] : m \in IdMethods \cup {"getProfile"}, a \in IdStrings}
    \cup {[NoCall EXCEPT !.m = "search", !.a = q, !.type = t, !.limit = l] :
            q \in QueryTexts, t \in SearchTypes, l \in SearchLimits}
    \cup {[NoCall EXCEPT !.m = m] : m \in FixedMethods}
    \cup {[NoCall EXCEPT !.m = "getPosts", !.opt = o, !.sort = s, !.limit = l] :
            o \in {Undefined} \cup {Str(a) : a \in IdStrings}, s \in Sorts, l \in Limits}
    \cup {[NoCall EXCEPT !.m = "getFeed", !.sort = s, !.limit = l] : s \in Sorts, l \in Limits}

\* A plausible slip: the value pasted into the query string as it is.
UrlEncodeRaw(s) == s

\* application/x-www-form-urlencoded, as URLSearchParams.toString() escapes a
\* name or a value: a space becomes "+", reserved characters are percent-encoded.
UrlEncode(s) ==
    [i \in 1..Len(s) |->
        CASE s[i] = "/" -> "%2F"
          [] s[i] = ":" -> "%3A"
          [] s[i] = " " -> "+"
          [] OTHER -> s[i]]

\* new URLSearchParams(pairs).toString(): name=value joined by "&"
RECURSIVE QueryString(_)
QueryString(pairs) ==
    IF pairs = << >> THEN << >>
    ELSE UrlEncode(pairs[1][1]) \o <<"=">> \o UrlEncode(pairs[1][2])
         \o (IF Len(pairs) > 1 THEN <<"&">> \o QueryString(Tail(pairs)) ELSE << >>)

\* A plausible slip: the profile update sent as PUT.
HttpMethodOfPut(c) ==
    CASE c.m \in {"createPost", "createComment", "upvote", "follow", "subscribe",
                  "createSubmolt", "sendDm", "register", "downvote", "upvoteComment"} -> "POST"
      [] c.m \in {"removeUpvote", "unfollow", "unsubscribe", "deletePost"} -> "DELETE"
      [] c.m = "updateProfile" -> "PUT"
      [] OTHER -> "GET"

\* The HTTP method each public method hands to request().
HttpMethodOf(c) ==
    CASE c.m \in {"createPost", "createComment", "upvote", "follow", "subscribe",
                  "createSubmolt", "sendDm", "register", "downvote", "upvoteComment"} -> "POST"
      [] c.m \in {"removeUpvote", "unfollow", "unsubscribe", "deletePost"} -> "DELETE"
      [] c.m = "updateProfile" -> "PATCH"
      [] OTHER -> "GET"

HasBodyOf(c) ==
    c.m \in {"createPost", "createComment", "updateProfile", "createSubmolt", "sendDm", "register"}

\* String(v) in a template or a URLSearchParams value: undefined reads "undefined".
StringOf(v) == IF v = Undefined THEN <<"undefined">> ELSE v[1]

\* A plausible slip: params.set('submolt', submolt) without the test on submolt.
GetPostsPathAlways(c) ==
    <<"/", "posts", "?">>
    \o QueryString(<< <<(<<"sort">>), <<c.sort>> >>, <<(<<"limit">>), <<ToString(c.limit)>> >>,
                      <<(<<"submolt">>), StringOf(c.opt)>> >>)

\* getPosts: sort and limit first, then submolt if the argument is truthy.
GetPostsPath(c) ==
    <<"/", "posts", "?">>
    \o QueryString(<< <<(<<"sort">>), <<c.sort>> >>, <<(<<"limit">>), <<ToString(c.limit)>> >> >>
                   \o (IF Truthy(c.opt) THEN << <<(<<"submolt">>), c.opt[1]>> >> ELSE << >>))

\* A plausible slip: the query interpolated into the path as it is.
SearchPathInterpolated(c) ==
    <<"/", "search", "?", "q", "=">> \o c.a
    \o <<"&", "type", "=", c.type, "&", "limit", "=", ToString(c.limit)>>

\* search: q, type, limit through URLSearchParams.
SearchPath(c) ==
    <<"/", "search", "?">>
    \o QueryString(<< <<(<<"q">>), c.a>>, <<(<<"type">>), <<c.type>> >>,
                      <<(<<"limit">>), <<ToString(c.limit)>> >> >>)

\* The path each public method hands to request().
PathOf(c) ==
    CASE c.m = "createPost" -> <<"/", "posts">>
      [] c.m = "getPosts" -> GetPostsPath(c)
      [] c.m = "getPost" -> <<"/", "posts", "/">> \o c.a
      [] c.m \in {"createComment", "getComments"} -> <<"/", "posts", "/">> \o c.a \o <<"/", "comments">>
      [] c.m \in {"upvote", "removeUpvote"} -> <<"/", "posts", "/">> \o c.a \o <<"/", "upvote">>
      [] c.m \in {"getMe", "updateProfile"} -> <<"/", "agents", "/", "me">>
      [] c.m = "getAgent" -> <<"/", "agents", "/">> \o c.a
      [] c.m \in {"follow", "unfollow"} -> <<"/", "agents", "/">> \o c.a \o <<"/", "follow">>
      [] c.m \in {"getSubmolts", "createSubmolt"} -> <<"/", "submolts">>
      [] c.m = "getSubmolt" -> <<"/", "submolts", "/">> \o c.a
      [] c.m \in {"subscribe", "unsubscribe"} -> <<"/", "submolts", "/">> \o c.a \o <<"/", "subscribe">>
      [] c.m = "checkDms" -> <<"/", "agents", "/", "dm", "/", "check">>
      [] c.m = "getConversations" -> <<"/", "agents", "/", "dm", "/", "conversations">>
      [] c.m = "sendDm" -> <<"/", "agents", "/", "dm", "/", "send">>
      [] c.m = "register" -> <<"/", "agents", "/", "register">>
      [] c.m = "getStatus" -> <<"/", "agents", "/", "status">>
      [] c.m = "getFeed" ->
            <<"/", "feed", "?">>
            \o QueryString(<< <<(<<"sort">>), <<c.sort>> >>, <<(<<"limit">>), <<ToString(c.limit)>> >> >>)
      [] c.m = "search" -> SearchPath(c)
      [] c.m = "downvote" -> <<"/", "posts", "/">> \o c.a \o <<"/", "downvote">>
      [] c.m = "deletePost" -> <<"/", "posts", "/">> \o c.a
      [] c.m = "getProfile" -> <<"/", "agents", "/", "profile", "?">> \o QueryString(<< <<(<<"name">>), c.a>> >>)
      [] c.m = "upvoteComment" -> <<"/", "comments", "/">> \o c.a \o <<"/", "upvote">>

NoReq == [method |-> "none", path |-> EmptyString, hasBody |-> FALSE,
          url |-> EmptyString, auth |-> EmptyString]

\* HTTP status codes a response carries in this model.
Statuses == {200, 299, 300, 401, 500}

\* res.ok
Ok(status) == status >= 200 /\ status <= 299

\* Response bodies: text that is not JSON; the JSON value null; another JSON
\* value that is no object (a number, a string, an array: reading a property of
\* it gives undefined); or a JSON object, of which the members error and
\* message matter.
Bodies ==
    {[kind |-> k, error |-> Undefined, message |-> Undefined] : k \in {"unparseable", "null", "scalar"}}
    \cup {[kind |-> "object", error |-> e, message |-> m] :
            e \in {Undefined, Str(EmptyString), Str(<<"E">>)}, m \in {Undefined, Str(<<"M">>)}}

NoBody == [kind |-> "none", error |-> Undefined, message |-> Undefined]
EmptyObject == [kind |-> "object", error |-> Undefined, message |-> Undefined]

\* What fetch can throw: an Error with a message, an Error with an empty
\* message, or a value that is no Error.
Thrown == {[isError |-> TRUE, message |-> <<"fetch failed">>],
           [isError |-> TRUE, message |-> EmptyString],
           [isError |-> FALSE, message |-> EmptyString]}

NoThrown == [isError |-> FALSE, message |-> EmptyString]
NoOutcome == [kind |-> "none", status |-> 0, body |-> NoBody, thrown |-> NoThrown]

Outcomes ==
    {[kind |-> "response", status |-> st, body |-> b, thrown |-> NoThrown] :
        st \in Statuses, b \in Bodies}
    \cup {[kind |-> "throw", status |-> 0, body |-> NoBody, thrown |-> t] : t \in Thrown}

\* A plausible slip: a parse failure handled with .catch(() => null).
ResJsonOrNull(body) ==
    IF body.kind = "unparseable" THEN [body EXCEPT !.kind = "null"] ELSE body

\* await res.json().catch(() => ({})): the parsed body, {} when parsing fails.
ResJson(body) ==
    IF body.kind = "unparseable" THEN EmptyObject ELSE body

\* data.error, data.message: a TypeError on null, undefined on a non-object.
ReadProperty(data, name) ==
    [threw |-> data.kind = "null",
     value |-> IF data.kind = "object"
               THEN (IF name = "error" THEN data.error ELSE data.message)
               ELSE Undefined]

TypeErrorMsg == <<"Cannot read properties of null (reading 'error')">>

PathParamMsg == "401 Unauthorized - Known Moltbook API bug with path parameters"
HostMsg == "401 Unauthorized - Make sure you're using https://www.moltbook.com (with www)"
KeyMsg == "401 Unauthorized - Check your API key"

\* /\/[^\/]+\/[^\/]+/.test(path)
TwoSegments(path) ==
    \E i \in 1..Len(path) : \E j \in (i + 2)..(Len(path) - 1) :
        /\ path[i] = "/"
        /\ \A k \in (i + 1)..(j - 1) : path[k] # "/"
        /\ path[j] = "/"
        /\ path[j + 1] # "/"

\* path.includes('/:') || /\/[^\/]+\/[^\/]+/.test(path)
PathParamTest(path) ==
    Includes(path, <<"/", ":">>) \/ TwoSegments(path)

NoEnvelope == [success |-> FALSE, status |-> 0, keys |-> {}, data |-> NoBody,
               error |-> EmptyString]

Failure(msg, status) ==
    [success |-> FALSE, status |-> status, keys |-> {"error"}, data |-> NoBody, error |-> msg]

\* catch (err): the envelope of a thrown value
Caught(isError, message) ==
    Failure(IF isError THEN message ELSE <<"Network error">>, 0)

\* The 401 branch of request().
Classify401(apiBase, path, data) ==
    IF PathParamTest(path)
    THEN IF ReadProperty(data, "error").threw
         THEN Caught(TRUE, TypeErrorMsg)
         ELSE Failure(<<PathParamMsg>>
                      \o (IF Truthy(ReadProperty(data, "error").value)
                          THEN <<": ">> \o ReadProperty(data, "error").value[1]
                          ELSE << >>)
                      \o <<"\n\nWorkaround: Some endpoints are currently broken due to a server-side authentication bug.",
                           "\nThis affects endpoints like /posts/:id/comments, /posts/:id/upvote, etc.",
                           "\nThe team is aware and working on a fix.">>,
                      401)
    ELSE IF ~Includes(apiBase, WwwHost)
    THEN Failure(<<HostMsg,
                   "\nUsing moltbook.com without www will strip your Authorization header!">>, 401)
    ELSE Failure(<<KeyMsg, "\nRun: moltbook auth <your-api-key>",
                   "\nOr set MOLTBOOK_API_KEY environment variable">>, 401)

\* data.error || data.message || `HTTP ${res.status}`
OtherFailure(data, status) ==
    IF ReadProperty(data, "error").threw THEN Caught(TRUE, TypeErrorMsg)
    ELSE IF Truthy(ReadProperty(data, "error").value)
         THEN Failure(ReadProperty(data, "error").value[1], status)
    ELSE IF Truthy(ReadProperty(data, "message").value)
         THEN Failure(ReadProperty(data, "message").value[1], status)
    ELSE Failure(<<"HTTP ", ToString(status)>>, status)

\* request(method, path, body), from the outcome of fetch to the envelope.
RequestEnvelope(apiBase, path, out) ==
    IF out.kind = "throw" THEN Caught(out.thrown.isError, out.thrown.message)
    ELSE LET data == ResJson(out.body) IN
         IF ~Ok(out.status)
         THEN IF out.status = 401 THEN Classify401(apiBase, path, data)
              ELSE OtherFailure(data, out.status)
         ELSE [success |-> TRUE, status |-> out.status, keys |-> {"data"},
               data |-> data, error |-> EmptyString]

\* return this.request(...): the wrapper hands the envelope on as it is.
MethodResult(e) == e

NoCtor == [called |-> FALSE, arg |-> Undefined, env |-> Undefined, config |-> Defaults]

\* A plausible slip: requireApiKey() || apiKey, which never reaches the argument.
ConstructorKeyRequireFirst(explicit, e, fl) == RequireApiKey(e, fl)

\* apiKey || requireApiKey()
ConstructorKey(explicit, e, fl) ==
    IF Truthy(explicit)
    THEN [exited |-> FALSE, key |-> explicit[1], printed |-> EmptyString, code |-> 0]
    ELSE RequireApiKey(e, fl)

\* new MoltbookApi(apiKey?)
Construct(explicit) ==
    /\ UNCHANGED savers
    /\ pc = "start"
    /\ LET config == GetConfig(file).value
           key == ConstructorKey(explicit, env, file)
       IN  /\ ctor' = [called |-> TRUE, arg |-> explicit, env |-> env, config |-> config]
           /\ IF key.exited
              THEN /\ client' = client
                   /\ pc' = "exited"
                   /\ stderr' = stderr \o key.printed
                   /\ exit' = Exited(key.code)
              ELSE /\ client' = [made |-> TRUE, apiBase |-> config["apiBase"][1], apiKey |-> key.key]
                   /\ pc' = "ready"
                   /\ UNCHANGED <<stderr, exit>>
    /\ UNCHANGED <<call, req, fetches, outcome, envelope, result>>
    /\ UNCHANGED <<cmd, stdout>>
    /\ UNCHANGED configVars

\* A plausible slip: the base URL and the key are read again at every call.
InvokeRereading(c) ==
    /\ UNCHANGED savers
    /\ pc = "ready"
    /\ call' = c
    /\ req' = [method |-> HttpMethodOf(c), path |-> PathOf(c), hasBody |-> HasBodyOf(c),
               url |-> GetConfig(file).value["apiBase"][1] \o PathOf(c),
               auth |-> <<"Bearer ">> \o (IF Truthy(GetApiKey(env, file))
                                          THEN GetApiKey(env, file)[1] ELSE client.apiKey)]
    /\ fetches' = 1
    /\ outcome' = NoOutcome
    /\ envelope' = NoEnvelope
    /\ result' = NoEnvelope
    /\ pc' = "awaiting"
    /\ UNCHANGED <<client, ctor>>
    /\ UNCHANGED configVars
    /\ UNCHANGED cliVars

\* A public method is called: it builds its path and request() calls fetch.
Invoke(c) ==
    /\ UNCHANGED savers
    /\ pc = "ready"
    /\ call' = c
    /\ req' = [method |-> HttpMethodOf(c), path |-> PathOf(c), hasBody |-> HasBodyOf(c),
               url |-> client.apiBase \o PathOf(c),
               auth |-> <<"Bearer ">> \o client.apiKey]
    /\ fetches' = 1
    /\ outcome' = NoOutcome
    /\ envelope' = NoEnvelope
    /\ result' = NoEnvelope
    /\ pc' = "awaiting"
    /\ UNCHANGED <<client, ctor>>
    /\ UNCHANGED configVars
    /\ UNCHANGED cliVars

\* The caller has taken the result of the call and is free to call again.
Resume ==
    /\ UNCHANGED savers
    /\ pc = "returned"
    /\ pc' = "ready"
    /\ call' = NoCall
    /\ req' = NoReq
    /\ fetches' = 0
    /\ outcome' = NoOutcome
    /\ envelope' = NoEnvelope
    /\ result' = NoEnvelope
    /\ UNCHANGED <<client, ctor>>
    /\ UNCHANGED configVars
    /\ UNCHANGED cliVars

\* A plausible slip: a transport failure is retried once.
SettleWithRetry(out) ==
    /\ UNCHANGED savers
    /\ pc = "awaiting"
    /\ outcome' = out
    /\ IF out.kind = "throw" /\ fetches < 2
       THEN /\ fetches' = fetches + 1
            /\ pc' = "awaiting"
            /\ UNCHANGED <<envelope, result>>
       ELSE /\ envelope' = RequestEnvelope(client.apiBase, req.path, out)
            /\ result' = MethodResult(envelope')
            /\ pc' = "returned"
            /\ UNCHANGED fetches
    /\ UNCHANGED <<client, ctor, call, req>>
    /\ UNCHANGED configVars
    /\ UNCHANGED cliVars

\* fetch settles: request() builds the envelope and the public method returns it.
Settle(out) ==
    /\ UNCHANGED savers
    /\ pc = "awaiting"
    /\ outcome' = out
    /\ envelope' = RequestEnvelope(client.apiBase, req.path, out)
    /\ result' = MethodResult(envelope')
    /\ pc' = "returned"
    /\ UNCHANGED <<client, ctor, call, req, fetches>>
    /\ UNCHANGED configVars
    /\ UNCHANGED cliVars

ClientIdle ==
    /\ client = NoClient
    /\ ctor = NoCtor
    /\ pc = "start"
    /\ call = NoCall
    /\ req = NoReq
    /\ fetches = 0
    /\ outcome = NoOutcome
    /\ envelope = NoEnvelope
    /\ result = NoEnvelope

NoCmd == [name |-> "none", arg |-> Undefined, arg2 |-> Undefined, sort |-> "hot", limit |-> 0,
          type |-> "all"]

\* Library use: no command line, nothing printed yet, the process running.
CliIdle ==
    /\ cmd = NoCmd
    /\ stdout = EmptyString
    /\ stderr = EmptyString
    /\ exit = Running

\* The file system and the environment the process starts in.
EnvInit ==
    /\ dirExists \in BOOLEAN
    /\ file \in FileStates
    /\ (~dirExists => file.kind = "absent")
    /\ env \in EnvValues
    /\ op = NoOp

InitConfig == EnvInit /\ ClientIdle /\ CliIdle /\ SaversIdle

InitRace ==
    /\ file \in RaceFiles
    /\ dirExists = (file.kind # "absent")
    /\ env = Undefined
    /\ op = NoOp
    /\ ClientIdle
    /\ CliIdle
    /\ SaversIdle

NextRace ==
    \/ \E p \in Procs : \E partial \in RacePartials : SaveEnter(p, partial)
    \/ \E p \in Procs : SaveRead(p)
    \/ \E p \in Procs : SaveOpen(p)
    \/ \E p \in Procs : SaveWrite(p)

SpecRace == InitRace /\ [][NextRace]_vars

NextConfig ==
    \/ GetConfigCall
    \/ \E partial \in Partials : SaveConfigCall(partial)
    \/ GetApiKeyCall

SpecConfig == InitConfig /\ [][NextConfig]_vars

\* The files a client is constructed over.
ClientFiles ==
    {[kind |-> "absent", doc |-> EmptyDoc],
     [kind |-> "object", doc |-> [f \in {"apiKey"} |-> <<"K1">>]],
     [kind |-> "object",
      doc |-> [f \in {"apiKey", "apiBase"} |-> IF f = "apiKey" THEN <<"K1">> ELSE BareApiBase]]}

Init ==
    /\ file \in ClientFiles
    /\ dirExists = (file.kind # "absent")
    /\ env \in {Undefined, Str(<<"E1">>)}
    /\ op = NoOp
    /\ ClientIdle
    /\ CliIdle
    /\ SaversIdle

Next ==
    \/ \E explicit \in ExplicitKeys : Construct(explicit)
    \/ \E c \in Calls : Invoke(c)
    \/ \E out \in Outcomes : Settle(out)
    \/ Resume

Spec == Init /\ [][Next]_vars

\* The life of one instance in embedding code, with the credentials file and
\* the environment changing under it.
LifeExplicitKeys == ExplicitKeys \cup {Str(EmptyString)}

LifeFiles ==
    ClientFiles \cup {[kind |-> "object", doc |-> [f \in {"apiKey"} |-> EmptyString]]}

LifePartials ==
    {[f \in {"apiKey"} |-> Str(<<"K2">>)],
     [f \in {"apiBase"} |-> Str(BareApiBase)],
     [f \in {"apiBase"} |-> Str(DefaultApiBase)]}

LifeCalls ==
    {[NoCall EXCEPT !.m = "getMe"],
     [NoCall EXCEPT !.m = "getPost", !.a = <<"x">>],
     [NoCall EXCEPT !.m = "getPosts", !.sort = "new", !.limit = 5]}

LifeOutcomes ==
    {o \in Outcomes : \/ o.kind = "response" /\ o.status \in {200, 401} /\ o.body = EmptyObject
                      \/ o.kind = "throw" /\ o.thrown.message # EmptyString}

\* process.env.MOLTBOOK_API_KEY is set or deleted while the instance lives.
SetEnv(v) ==
    /\ UNCHANGED savers
    /\ pc \in {"ready", "awaiting"}
    /\ env' = v
    /\ v # env
    /\ UNCHANGED <<dirExists, file, op>>
    /\ UNCHANGED clientVars
    /\ UNCHANGED cliVars

\* saveConfig(partial) is called while the instance lives.
SaveWhileLive(partial) ==
    /\ pc \in {"ready", "awaiting"}
    /\ SaveConfigCall(partial)

InitLife ==
    /\ file \in LifeFiles
    /\ dirExists = (file.kind # "absent")
    /\ env \in EnvValues
    /\ op = NoOp
    /\ ClientIdle
    /\ CliIdle
    /\ SaversIdle

NextLife ==
    \/ \E explicit \in LifeExplicitKeys : Construct(explicit)
    \/ \E partial \in LifePartials : SaveWhileLive(partial)
    \/ \E v \in EnvValues : SetEnv(v)
    \/ \E c \in LifeCalls : Invoke(c)
    \/ \E out \in LifeOutcomes : Settle(out)
    \/ Resume

SpecLife == InitLife /\ [][NextLife]_vars

----------------------------------------------------------------------------
(* api.ts: the command line (commander actions) *)

\* A text printed by console.log or console.error is a sequence of tokens; the
\* check mark and the other pictographs of the messages are left out.

\* The bound on the length of a configured key, in characters.
MaxKeyLen == 14

\* The two cuts of the key the auth command prints.
SliceHead == 12
SliceTail == 4

\* s.slice(0, n)
SliceFirst(s, n) == SubSeq(s, 1, IF Len(s) < n THEN Len(s) ELSE n)
\* s.slice(-n)
SliceLast(s, n) == SubSeq(s, IF Len(s) < n THEN 1 ELSE Len(s) - n + 1, Len(s))

\* `API key: ${existing.slice(0, 12)}...${existing.slice(-4)}`
Redacted(existing) ==
    <<"API key: ">> \o SliceFirst(existing, SliceHead) \o <<".", ".", ".">>
    \o SliceLast(existing, SliceTail)

\* Configured keys, character by character: one key of each length.
KeyOfLength(n) == [i \in 1..n |-> ToString(i % 10)]
ShownKeys == {KeyOfLength(n) : n \in 1..MaxKeyLen}

\* The key the server hands out at registration.
RegisteredKey == <<"moltbook_sk_", "R1">>

\* username.replace(/^@/, '')
StripAt(a) == IF a # EmptyString /\ Head(a) = "@" THEN Tail(a) ELSE a
\* submolt.replace(/^m\//, '')
StripM(a) == IF Len(a) >= 2 /\ a[1] = "m" /\ a[2] = "/" THEN Tail(Tail(a)) ELSE a

\* Positional arguments as typed: a plain name, a name with @, a name with m/.
CliArgs == {<<"x">>, <<"@", "x">>, <<"m", "/", "x">>}

IdCommands == {"comment", "upvote", "downvote", "delete", "follow", "view", "subscribe",
               "create-submolt", "register"}
PlainCommands == {"me", "post", "submolts", "status"}
Known401Commands == {"comment", "upvote", "follow", "subscribe"}

\* The command lines run.
Commands ==
    {[NoCmd EXCEPT !.name = "auth", !.arg = k] :
        k \in {Undefined, Str(EmptyString), Str(RegisteredKey)}}
    \cup {[NoCmd EXCEPT !.name = n] : n \in PlainCommands}
    \cup {[NoCmd EXCEPT !.name = n, !.arg = Str(a)] : n \in IdCommands, a \in CliArgs}
    \cup {[NoCmd EXCEPT !.name = "browse", !.arg = a, !.sort = so, !.limit = 10] :
            a \in {Undefined, Str(<<"x">>)}, so \in Sorts}
    \cup {[NoCmd EXCEPT !.name = "feed", !.sort = so, !.limit = 10] : so \in Sorts}
    \cup {[NoCmd EXCEPT !.name = "search", !.arg = Str(q), !.type = t, !.limit = 20] :
            q \in {<<"x">>, <<"agent", " ", "memory">>}, t \in SearchTypes}
    \cup {[NoCmd EXCEPT !.name = "dm", !.arg = u, !.arg2 = m] :
            u \in {Undefined, Str(<<"@", "x">>)}, m \in {Undefined, Str(<<"hi">>)}}
    \cup {[NoCmd EXCEPT !.name = "profile", !.arg = n, !.arg2 = b] :
            n \in {Undefined, Str(<<"x">>)}, b \in {Undefined, Str(<<"bio">>)}}

\* The commands that return before any client is made.
Local(c) ==
    \/ c.name = "auth"
    \/ c.name = "profile" /\ ~Truthy(c.arg) /\ ~Truthy(c.arg2)

\* The public method a command calls, with the arguments it hands over.
CommandCall(c) ==
    CASE c.name = "me" -> [NoCall EXCEPT !.m = "getMe"]
      [] c.name = "post" -> [NoCall EXCEPT !.m = "createPost"]
      [] c.name = "browse" ->
            [NoCall EXCEPT !.m = "getPosts", !.opt = c.arg, !.sort = c.sort, !.limit = c.limit]
      [] c.name = "comment" -> [NoCall EXCEPT !.m = "createComment", !.a = c.arg[1]]
      [] c.name = "upvote" -> [NoCall EXCEPT !.m = "upvote", !.a = c.arg[1]]
      [] c.name = "follow" -> [NoCall EXCEPT !.m = "follow", !.a = StripAt(c.arg[1])]
      [] c.name = "subscribe" -> [NoCall EXCEPT !.m = "subscribe", !.a = StripM(c.arg[1])]
      [] c.name = "dm" ->
            IF Truthy(c.arg) /\ Truthy(c.arg2)
            THEN [NoCall EXCEPT !.m = "sendDm"]
            ELSE [NoCall EXCEPT !.m = "checkDms"]
      [] c.name = "submolts" -> [NoCall EXCEPT !.m = "getSubmolts"]
      [] c.name = "create-submolt" -> [NoCall EXCEPT !.m = "createSubmolt"]
      [] c.name = "feed" -> [NoCall EXCEPT !.m = "getFeed", !.sort = c.sort, !.limit = c.limit]
      [] c.name = "search" ->
            [NoCall EXCEPT !.m = "search", !.a = c.arg[1], !.type = c.type, !.limit = c.limit]
      [] c.name = "downvote" -> [NoCall EXCEPT !.m = "downvote", !.a = c.arg[1]]
      [] c.name = "delete" -> [NoCall EXCEPT !.m = "deletePost", !.a = c.arg[1]]
      [] c.name = "view" -> [NoCall EXCEPT !.m = "getProfile", !.a = StripAt(c.arg[1])]
      [] c.name = "register" -> [NoCall EXCEPT !.m = "register"]
      [] c.name = "status" -> [NoCall EXCEPT !.m = "getStatus"]
      [] c.name = "profile" -> [NoCall EXCEPT !.m = "updateProfile"]
      [] OTHER -> NoCall

\* What the command reads in res.data: the member it looks for is missing
\* ("absent"), is there with nothing in it (an empty list, an object without
\* members: "empty"), or is there as the API documents it ("full").
Payloads == {"absent", "empty", "full"}

\* What a handler leaves behind: the texts printed and the exit code.
Printed(out, err, code) == [out |-> out, err |-> err, code |-> code]

\* An exception nobody catches: node prints it and exits with code 1.
Crash(out, what) == Printed(out, <<"TypeError: Cannot read properties of undefined (reading '", what, "')">>, 1)

\* The branch under if (!res.success): the diagnostic, then process.exit(1).
FailureBranch(c, res) ==
    IF c.name \in Known401Commands /\ res.status = 401
    THEN Printed(EmptyString,
                 <<"Error: 401 Unauthorized", "This is likely the known Moltbook bug (GitHub #42)">>
                 \o (IF c.name = "comment"
                     THEN <<"Comment endpoints with path params return 401 even with valid auth.">>
                     ELSE << >>),
                 1)
    ELSE Printed(EmptyString, <<"Error: ">> \o res.error, 1)

PostLines == <<"\n[", "P1", "] ", "m/", "s", "  @", "N", ": ", "text", "  ", "1", "  ", "2">>

\* What follows the test of res.success when the call succeeded.
SuccessBranch(c, payload) ==
    CASE c.name = "me" ->
            IF payload = "absent" THEN Crash(EmptyString, "name")
            ELSE IF payload = "empty"
            THEN Crash(<<"@", "undefined", "Karma: ", "undefined">>, "posts")
            ELSE Printed(<<"@", "N", "Bio: ", "D", "Karma: ", "7",
                           "Posts: ", "1", " | Comments: ", "2", " | Subscriptions: ", "3">>,
                         EmptyString, 0)
      [] c.name = "post" ->
            Printed(<<"Posted successfully">>
                    \o (IF payload = "full" THEN <<"  https://moltbook.com/posts/", "P1">> ELSE << >>),
                    EmptyString, 0)
      [] c.name = "browse" ->
            Printed(IF payload = "full" THEN PostLines ELSE <<"No posts found">>, EmptyString, 0)
      [] c.name = "feed" ->
            Printed(IF payload = "full" THEN PostLines
                    ELSE <<"No posts in your feed. Try subscribing to submolts or following moltys!">>,
                    EmptyString, 0)
      [] c.name = "comment" -> Printed(<<"Comment posted">>, EmptyString, 0)
      [] c.name = "upvote" -> Printed(<<"Upvoted">>, EmptyString, 0)
      [] c.name = "follow" -> Printed(<<"Now following @">> \o c.arg[1], EmptyString, 0)
      [] c.name = "subscribe" -> Printed(<<"Subscribed to m/">> \o c.arg[1], EmptyString, 0)
      [] c.name = "dm" ->
            IF Truthy(c.arg) /\ Truthy(c.arg2)
            THEN Printed(<<"DM sent to @">> \o c.arg[1], EmptyString, 0)
            ELSE Printed(IF payload = "full" THEN <<"S">> ELSE <<"No new DM activity">>,
                         EmptyString, 0)
      [] c.name = "submolts" ->
            Printed(IF payload = "full" THEN <<"m/", "s", " - ", "D">> ELSE EmptyString,
                    EmptyString, 0)
      [] c.name = "create-submolt" -> Printed(<<"Created m/">> \o c.arg[1], EmptyString, 0)
      [] c.name = "search" ->
            Printed(IF payload = "full"
                    THEN <<"Found ", "1", " results for: \"">> \o c.arg[1]
                         \o <<"\"\n", "[", "90", "%] @", "N", "  ", "text", "  ", "1",
                              "  https://moltbook.com/posts/", "P1">>
                    ELSE <<"No results found">>,
                    EmptyString, 0)
      [] c.name = "downvote" -> Printed(<<"Downvoted">>, EmptyString, 0)
      [] c.name = "delete" -> Printed(<<"Post deleted">>, EmptyString, 0)
      [] c.name = "view" ->
            IF payload = "absent" THEN Printed(EmptyString, <<"Profile not found">>, 1)
            ELSE IF payload = "empty"
            THEN Printed(<<"@", "undefined", "Karma: ", "undefined",
                           "Followers: ", "undefined", " | Following: ", "undefined">>,
                         EmptyString, 0)
            ELSE Printed(<<"@", "N", "Bio: ", "D", "Karma: ", "7",
                           "Followers: ", "1", " | Following: ", "2">>, EmptyString, 0)
      [] c.name = "register" ->
            IF payload = "absent" THEN Printed(EmptyString, <<"Registration failed">>, 1)
            ELSE LET key == IF payload = "full" THEN RegisteredKey ELSE <<"undefined">>
                     other == IF payload = "full" THEN "U" ELSE "undefined"
                 IN  Printed(<<"Agent registered!\n", "API Key: ">> \o key
                             \o <<"SAVE THIS KEY! You can't retrieve it later.\n",
                                  "Claim URL: ", other, "Verification Code: ", other,
                                  "Next steps:", "1. Save your API key: moltbook auth ">> \o key
                             \o <<"2. Send the claim URL to your human",
                                  "3. Have them post a verification tweet">>,
                             EmptyString, 0)
      [] c.name = "status" ->
            Printed(IF payload = "full" THEN <<"Your agent is claimed and active">>
                    ELSE IF payload = "empty"
                    THEN <<"Waiting for human verification",
                           "Your human needs to post the verification tweet">>
                    ELSE <<"Status: ", "undefined">>,
                    EmptyString, 0)
      [] c.name = "profile" -> Printed(<<"Profile updated">>, EmptyString, 0)

\* A plausible slip: the diagnostic is printed but process.exit(1) is missing,
\* so the handler runs on into its success output.
CommandResultNoExit(c, res, payload) ==
    IF ~res.success
    THEN Printed(SuccessBranch(c, payload).out, FailureBranch(c, res).err,
                 SuccessBranch(c, payload).code)
    ELSE SuccessBranch(c, payload)

\* The handler after await: the failure branch, or else the success output.
CommandResult(c, res, payload) ==
    IF ~res.success THEN FailureBranch(c, res) ELSE SuccessBranch(c, payload)

\* The shell starts the command: the handler runs up to its await, or to its
\* end if it makes no remote call.
CliRun(c) ==
    /\ UNCHANGED savers
    /\ pc = "start"
    /\ cmd = NoCmd
    /\ cmd' = c
    /\ IF c.name = "auth" /\ Truthy(c.arg)
       THEN LET existing == GetConfig(file).value
                merged == Merge(existing, [f \in {"apiKey"} |-> c.arg])
            IN  /\ dirExists' = TRUE
                /\ IF file.kind = "unreadable"
                   THEN /\ file' = file
                        /\ stdout' = stdout
                        /\ stderr' = stderr \o <<"Error: EACCES: permission denied">>
                        /\ exit' = Exited(1)
                   ELSE /\ file' = [kind |-> "object", doc |-> Stringify(merged)]
                        /\ stdout' = stdout \o <<"API key saved to ~/.config/moltbook/credentials.json">>
                        /\ stderr' = stderr
                        /\ exit' = Exited(0)
                /\ pc' = "finished"
                /\ UNCHANGED <<env, op, client, ctor, call, req, fetches, outcome, envelope, result>>
       ELSE IF c.name = "auth"
       THEN LET existing == GetApiKey(env, file)
            IN  /\ stdout' = stdout \o (IF Truthy(existing) THEN Redacted(existing[1])
                                        ELSE <<"No API key configured",
                                               "Usage: moltbook auth <your-api-key>">>)
                /\ exit' = Exited(0)
                /\ pc' = "finished"
                /\ UNCHANGED stderr
                /\ UNCHANGED configVars
                /\ UNCHANGED <<client, ctor, call, req, fetches, outcome, envelope, result>>
       ELSE IF Local(c)
       THEN /\ stdout' = stdout \o <<"Specify --name or --bio to update">>
            /\ exit' = Exited(0)
            /\ pc' = "finished"
            /\ UNCHANGED stderr
            /\ UNCHANGED configVars
            /\ UNCHANGED <<client, ctor, call, req, fetches, outcome, envelope, result>>
       ELSE LET config == GetConfig(file).value
                key == ConstructorKey(Undefined, env, file)
                made == [made |-> TRUE, apiBase |-> config["apiBase"][1], apiKey |-> key.key]
            IN  /\ ctor' = [called |-> TRUE, arg |-> Undefined, env |-> env, config |-> config]
                /\ IF key.exited
                   THEN /\ stderr' = stderr \o key.printed
                        /\ exit' = Exited(key.code)
                        /\ pc' = "exited"
                        /\ UNCHANGED <<client, call, req, fetches>>
                   ELSE /\ client' = made
                        /\ call' = CommandCall(c)
                        /\ req' = [method |-> HttpMethodOf(call'), path |-> PathOf(call'),
                                   hasBody |-> HasBodyOf(call'),
                                   url |-> made.apiBase \o PathOf(call'),
                                   auth |-> <<"Bearer ">> \o made.apiKey]
                        /\ fetches' = 1
                        /\ pc' = "awaiting"
                        /\ UNCHANGED <<stderr, exit>>
                /\ UNCHANGED <<stdout, outcome, envelope, result>>
                /\ UNCHANGED configVars

\* The responses and failures the command line meets.
CliOutcomes == {o \in Outcomes : o.kind = "throw" \/ o.status \in {200, 401, 500}}

\* fetch settles: request() builds the envelope, the method returns it and the
\* handler runs to its end.
CliSettle(out, payload) ==
    /\ UNCHANGED savers
    /\ pc = "awaiting"
    /\ cmd # NoCmd
    /\ outcome' = out
    /\ envelope' = RequestEnvelope(client.apiBase, req.path, out)
    /\ result' = MethodResult(envelope')
    /\ payload # "absent" => (result'.success /\ out.body.kind = "object")
    /\ LET r == CommandResult(cmd, result', payload)
       IN  /\ stdout' = stdout \o r.out
           /\ stderr' = stderr \o r.err
           /\ exit' = Exited(r.code)
    /\ pc' = "finished"
    /\ UNCHANGED <<client, ctor, call, req, fetches, cmd>>
    /\ UNCHANGED configVars

\* The process has ended; the shell is ready for the next command, over the
\* credentials file and the environment as they are now.
NextProcess ==
    /\ UNCHANGED savers
    /\ pc \in {"finished", "exited"}
    /\ cmd # NoCmd
    /\ pc' = "start"
    /\ cmd' = NoCmd
    /\ stdout' = EmptyString
    /\ stderr' = EmptyString
    /\ exit' = Running
    /\ client' = NoClient
    /\ ctor' = NoCtor
    /\ call' = NoCall
    /\ req' = NoReq
    /\ fetches' = 0
    /\ outcome' = NoOutcome
    /\ envelope' = NoEnvelope
    /\ result' = NoEnvelope
    /\ UNCHANGED configVars

\* The credentials files the command line starts over.
CliFiles ==
    {[kind |-> "absent", doc |-> EmptyDoc]}
    \cup {[kind |-> "object", doc |-> [f \in {"apiKey"} |-> k]] : k \in ShownKeys}

InitCli ==
    /\ file \in CliFiles
    /\ dirExists = (file.kind # "absent")
    /\ env \in {Undefined, Str(<<"E1">>)}
    /\ op = NoOp
    /\ ClientIdle
    /\ CliIdle
    /\ SaversIdle

NextCli ==
    \/ \E c \in Commands : CliRun(c)
    \/ \E out \in CliOutcomes : \E payload \in Payloads : CliSettle(out, payload)
    \/ NextProcess

SpecCli == InitCli /\ [][NextCli]_vars

----------------------------------------------------------------------------
(* The credentials store: claims C8, C9, C10 (specification SpecConfig) *)

\* The apiKey member of the credentials file, undefined when there is none.
StoredApiKey ==
    IF file.kind = "object" /\ "apiKey" \in DOMAIN file.doc
    THEN Str(file.doc["apiKey"]) ELSE Undefined

\* The default of a field: the production endpoint for apiBase, nothing else set.
DefaultOf(f) ==
    IF f = "apiBase" THEN Str(<<"https://", "www.", "moltbook.com", "/api/v1">>)
    ELSE Undefined

\* C8: getConfig never raises; with the credentials file absent, unreadable or
\* not JSON it returns the defaults (the production apiBase and no apiKey,
\* agentId or username), and with a JSON object in the file it returns the
\* defaults overlaid with the members of that object.
C8_GetConfigTotal ==
    op.name = "getConfig" =>
        /\ ~op.threw
        /\ file.kind \in {"absent", "unreadable", "invalid"} =>
               \A f \in Fields : op.ret[f] = DefaultOf(f)
        /\ file.kind = "object" =>
               \A f \in Fields :
                   op.ret[f] = IF f \in DOMAIN file.doc THEN Str(file.doc[f])
                               ELSE DefaultOf(f)

C8_Witness ==
    /\ op.name = "getConfig"
    /\ file.kind = "invalid"
    /\ ~op.threw
    /\ op.ret["apiBase"] = Str(DefaultApiBase)
    /\ op.ret["apiKey"] = Undefined

\* C9 as claimed: after a saveConfig(partial) that returned, getConfig gives
\* partial's value for every field partial names and the value getConfig gave
\* before the save for every other field, and the directory exists.
C9_SaveThenLoad_AsClaimed ==
    (op.name = "saveConfig" /\ ~op.threw) =>
        /\ dirExists
        /\ ~GetConfig(file).threw
        /\ \A f \in Fields :
               GetConfig(file).value[f] =
                   IF f \in DOMAIN op.partial THEN op.partial[f] ELSE op.before[f]

\* C9 (amended): after a saveConfig(partial) that returned, getConfig gives, for
\* every field partial names with a string, that string; for every field partial
\* names with undefined, the default of the field (the production apiBase,
\* nothing for the others); for every other field, the value getConfig gave
\* before the save.  The directory exists afterwards.
C9_SaveThenLoad ==
    (op.name = "saveConfig" /\ ~op.threw) =>
        /\ dirExists
        /\ ~GetConfig(file).threw
        /\ \A f \in Fields :
               GetConfig(file).value[f] =
                   IF f \in DOMAIN op.partial
                   THEN (IF op.partial[f] # Undefined THEN op.partial[f] ELSE DefaultOf(f))
                   ELSE op.before[f]

C9_Witness ==
    /\ op.name = "saveConfig"
    /\ ~op.threw
    /\ ~op.hadDir
    /\ dirExists
    /\ DOMAIN op.partial = {"apiKey"}
    /\ op.partial["apiKey"] = Str(<<"K1">>)
    /\ GetConfig(file).value["apiKey"] = Str(<<"K1">>)
    /\ GetConfig(file).value["apiBase"] = op.before["apiBase"]

\* C10 as claimed: getApiKey returns the environment value whenever the
\* variable is present, the stored key only when it is not present, and
\* nothing only when neither exists.
C10_EnvFirst_AsClaimed ==
    op.name = "getApiKey" =>
        /\ env # Undefined => op.key = env
        /\ env = Undefined => op.key = StoredApiKey
        /\ op.key = Undefined => (env = Undefined /\ StoredApiKey = Undefined)

\* C10 (amended): getApiKey returns the environment value whenever the variable
\* is set to a non-empty string, the stored apiKey when the variable is unset or
\* empty, and nothing only when the variable is unset or empty and no apiKey is
\* stored.
C10_EnvFirst ==
    op.name = "getApiKey" =>
        /\ (env # Undefined /\ env # Str(EmptyString)) => op.key = env
        /\ (env = Undefined \/ env = Str(EmptyString)) => op.key = StoredApiKey
        /\ op.key = Undefined =>
               ((env = Undefined \/ env = Str(EmptyString)) /\ StoredApiKey = Undefined)

C10_Witness ==
    /\ op.name = "getApiKey"
    /\ env = Str(<<"E1">>)
    /\ StoredApiKey = Str(<<"K1">>)
    /\ op.key = Str(<<"E1">>)

----------------------------------------------------------------------------
(* The API client: claims C1 to C7 (specification Spec) *)

\* request() has returned the envelope of an HTTP response.
Responded == pc = "returned" /\ outcome.kind = "response"

\* The first line of the error message of the returned envelope.
Diagnosis == IF envelope.error = EmptyString THEN "" ELSE Head(envelope.error)

\* An identifier that is one path segment: not empty, no separator in it.
ProperSegment(a) == a # EmptyString /\ \A i \in 1..Len(a) : a[i] # "/"

\* C1: for every HTTP response received, whatever its body, the envelope has
\* the status of the response and success is true exactly for a 2xx status;
\* status 0 is returned only when fetch itself failed, and then with success
\* false.
C1_StatusMirrorsResponse ==
    pc = "returned" =>
        /\ outcome.kind = "response" =>
               /\ envelope.status = outcome.status
               /\ envelope.success <=> (outcome.status \in 200..299)
        /\ envelope.status = 0 => (outcome.kind = "throw" /\ ~envelope.success)

\* C2: a response body that is not JSON never turns into a transport failure:
\* with a 2xx status the envelope is {success: true, data: {}} with the status
\* of the response, with another status it is a failure carrying that status,
\* whose message owes nothing to the body.
C2_UnparseableBody ==
    (Responded /\ outcome.body.kind = "unparseable") =>
        /\ envelope.status = outcome.status
        /\ IF outcome.status \in 200..299
           THEN /\ envelope.success
                /\ envelope.keys = {"data"}
                /\ envelope.data = [kind |-> "object", error |-> Undefined, message |-> Undefined]
           ELSE /\ ~envelope.success
                /\ envelope.keys = {"error"}
                /\ outcome.status # 401 => envelope.error = <<"HTTP ", ToString(outcome.status)>>

C2_Witness ==
    /\ Responded
    /\ outcome.body.kind = "unparseable"
    /\ outcome.status = 500
    /\ ~envelope.success
    /\ envelope.status = 500

\* C3: a 401 response to a request whose path carries an identifier segment
\* (/posts/abc123/comments, say) is reported as the path-parameter defect,
\* whatever the configured base URL is.
C3_IdentifierPath401 ==
    (Responded /\ outcome.status = 401 /\ call.m \in IdMethods /\ ProperSegment(call.a)) =>
        /\ envelope.status = 401
        /\ Diagnosis = PathParamMsg

\* The public methods whose path is one segment, a query string at most after it.
SingleSegmentMethods == {"createPost", "getPosts", "getSubmolts", "createSubmolt", "getFeed", "search"}

\* C4: a 401 response to a request on a single-segment path, with or without a
\* query string, is reported as the host-naming defect when the base URL lacks
\* www.moltbook.com and as the invalid-key case when it has it, never as the
\* path-parameter defect.
C4_SingleSegment401 ==
    (Responded /\ outcome.status = 401 /\ call.m \in SingleSegmentMethods) =>
        /\ envelope.status = 401
        /\ ~envelope.success
        /\ client.apiBase = <<"https://", "moltbook.com", "/api/v1">> => Diagnosis = HostMsg
        /\ client.apiBase = <<"https://", "www.", "moltbook.com", "/api/v1">> => Diagnosis = KeyMsg

C4_Witness ==
    /\ Responded
    /\ outcome.status = 401
    /\ call.m = "getPosts"
    /\ call.opt = Str(<<"/", "x">>)
    /\ client.apiBase = BareApiBase
    /\ Diagnosis = HostMsg

\* The endpoints the README lists as working that have no identifier in the path.
WorkingFixedMethods == {"getMe", "updateProfile", "checkDms", "sendDm", "register",
                        "getStatus", "getProfile"}

\* C5: on a 401 the path-parameter bug is reported only for an endpoint that
\* takes an identifier in its path; a 401 on a working endpoint without one
\* (/agents/me, /agents/dm/check, /agents/dm/send, /agents/register,
\* /agents/status, /agents/profile) is reported as the host-naming or the
\* invalid-key case.
C5_PathParamOnlyForIdentifiers ==
    (Responded /\ outcome.status = 401) =>
        /\ Diagnosis = PathParamMsg => call.m \in IdMethods
        /\ call.m \in WorkingFixedMethods => Diagnosis \in {HostMsg, KeyMsg}

\* A member of the body that holds a non-empty string (what the source's ||
\* takes for present), else undefined.
BodyMember(name) ==
    IF outcome.body.kind = "object" /\ Truthy(outcome.body[name])
    THEN outcome.body[name] ELSE Undefined

\* C6: a response with a status outside 2xx other than 401 gives
\* {success: false, status: <the code>} with error the error member of the
\* body if present, else its message member if present, else "HTTP <code>",
\* and no 401 diagnosis.
C6_OtherFailure ==
    (Responded /\ outcome.status \notin 200..299 /\ outcome.status # 401) =>
        /\ ~envelope.success
        /\ envelope.status = outcome.status
        /\ envelope.error =
               IF BodyMember("error") # Undefined THEN BodyMember("error")[1]
               ELSE IF BodyMember("message") # Undefined THEN BodyMember("message")[1]
               ELSE <<"HTTP ", ToString(outcome.status)>>
        /\ Diagnosis \notin {PathParamMsg, HostMsg, KeyMsg}

\* C7: a public method has issued exactly one HTTP request when it returns, and
\* returns the envelope of that request as it is; no second request is issued
\* while the call is in progress, whatever the outcome of the first.
C7_OneRequestPerCall ==
    /\ pc \in {"awaiting", "returned"} => fetches = 1
    /\ pc = "returned" => result = envelope

C7_Witness ==
    /\ pc = "returned"
    /\ outcome.kind = "throw"
    /\ fetches = 1
    /\ result.status = 0
    /\ ~result.success

----------------------------------------------------------------------------
(* Construction and the life of an instance: claims C11 to C14
   (specification SpecLife) *)

\* The key getApiKey() resolved when the constructor ran: the environment value
\* when it is a non-empty string, else the stored apiKey; undefined or "" when
\* neither gives one.
ResolvedAtCtor ==
    IF ctor.env # Undefined /\ ctor.env # Str(EmptyString) THEN ctor.env
    ELSE ctor.config["apiKey"]

NoKeyAtCtor == ResolvedAtCtor = Undefined \/ ResolvedAtCtor = Str(EmptyString)

NoArgAtCtor == ctor.arg = Undefined \/ ctor.arg = Str(EmptyString)

\* C11: called by the constructor, requireApiKey either returns the key that
\* getApiKey resolved, never an absent or empty one, or prints a diagnostic and
\* ends the process with exit code 1 without returning; an instance never sends
\* a request with no key.
C11_RequireKeyOrExit ==
    /\ (ctor.called /\ NoArgAtCtor) =>
           IF NoKeyAtCtor
           THEN /\ ~client.made
                /\ pc = "exited"
                /\ exit = [done |-> TRUE, code |-> 1]
                /\ stderr # EmptyString
                /\ fetches = 0
                /\ req = NoReq
           ELSE /\ client.made
                /\ client.apiKey = ResolvedAtCtor[1]
                /\ ~exit.done
    /\ fetches > 0 => (client.made /\ client.apiKey # EmptyString)

C11_Witness ==
    /\ ctor.called
    /\ NoArgAtCtor
    /\ NoKeyAtCtor
    /\ pc = "exited"
    /\ exit = [done |-> TRUE, code |-> 1]
    /\ stderr = NoKeyDiagnostic

\* C12: in library use, constructing MoltbookApi with no resolvable key does
\* not end the process: the caller gets a condition it can handle.
C12_LibraryRecoverable ==
    (cmd = NoCmd /\ ctor.called /\ NoArgAtCtor /\ NoKeyAtCtor) => ~exit.done

\* C13 as claimed: constructing with an explicit key never ends the process,
\* whatever the environment and the credentials file hold, and every request
\* of the instance carries Authorization: Bearer <the explicit key>.
C13_ExplicitKey_AsClaimed ==
    (ctor.called /\ ctor.arg # Undefined) =>
        /\ ~exit.done
        /\ client.made
        /\ client.apiKey = ctor.arg[1]
        /\ pc \in {"awaiting", "returned"} => req.auth = <<"Bearer ">> \o ctor.arg[1]

\* C13 (amended): constructing with an explicit key that is not the empty
\* string never ends the process, whatever the environment and the credentials
\* file hold, and every request of the instance carries
\* Authorization: Bearer <the explicit key>.
C13_ExplicitKey ==
    (ctor.called /\ ctor.arg # Undefined /\ ctor.arg # Str(EmptyString)) =>
        /\ ~exit.done
        /\ client.made
        /\ client.apiKey = ctor.arg[1]
        /\ pc \in {"awaiting", "returned"} => req.auth = <<"Bearer ">> \o ctor.arg[1]

C13_Witness ==
    /\ ctor.called
    /\ ctor.arg = Str(<<"X1">>)
    /\ ctor.env = Str(<<"E1">>)
    /\ ctor.config["apiKey"] = Str(<<"K1">>)
    /\ pc = "awaiting"
    /\ req.auth = <<"Bearer ", "X1">>

\* C14: whatever saveConfig calls and environment changes follow the
\* construction, every request of the instance goes to the apiBase that
\* getConfig gave at construction followed by the path, with the bearer key
\* resolved at construction.
C14_FixedAtConstruction ==
    pc \in {"awaiting", "returned"} =>
        /\ req.url = ctor.config["apiBase"][1] \o req.path
        /\ req.auth = <<"Bearer ">> \o (IF NoArgAtCtor THEN ResolvedAtCtor[1] ELSE ctor.arg[1])

C14_Witness ==
    /\ pc = "awaiting"
    /\ NoArgAtCtor
    /\ ctor.config["apiBase"] = Str(<<"https://", "www.", "moltbook.com", "/api/v1">>)
    /\ GetConfig(file).value["apiBase"] = Str(<<"https://", "moltbook.com", "/api/v1">>)
    /\ ctor.env = Str(<<"E1">>)
    /\ env = Undefined
    /\ req.auth = <<"Bearer ", "E1">>
    /\ req.url = <<"https://", "www.", "moltbook.com", "/api/v1", "/", "agents", "/", "me">>

(* The requests of the public methods: claims C15 to C17 (specification Spec) *)

\* A public method has been called and its request handed to fetch.
Issued == pc \in {"awaiting", "returned"}

\* The query string of the path carries a parameter of that name.
HasParam(path, name) == Includes(path, <<name, "=">>)

\* The path up to its query string.
BeforeQuery(path) ==
    IF \E i \in 1..Len(path) : path[i] = "?"
    THEN SubSeq(path, 1, (CHOOSE i \in 1..Len(path) :
                              path[i] = "?" /\ \A j \in 1..(i - 1) : path[j] # "?") - 1)
    ELSE path

SortAndLimit(c) == <<"/", "posts", "?", "sort", "=", c.sort, "&", "limit", "=", ToString(c.limit)>>

\* C15, as claimed: getPosts issues GET on /posts?sort=<sort>&limit=<limit>, and
\* the query string has a submolt parameter exactly when a submolt argument was
\* given; getPosts(undefined, 'new', 5) requests GET /posts?sort=new&limit=5.
C15_GetPosts_AsClaimed ==
    (Issued /\ call.m = "getPosts") =>
        /\ req.method = "GET"
        /\ SubSeq(req.path, 1, Len(SortAndLimit(call))) = SortAndLimit(call)
        /\ HasParam(req.path, "submolt") <=> call.opt # Undefined

\* C15, amended: the query string has a submolt parameter exactly when the
\* submolt argument is a non-empty string, and then it follows sort and limit;
\* with no argument or the empty string the path is /posts?sort=<sort>&limit=<limit>
\* alone, so getPosts(undefined, 'new', 5) requests GET /posts?sort=new&limit=5.
C15_GetPosts ==
    (Issued /\ call.m = "getPosts") =>
        /\ req.method = "GET"
        /\ SubSeq(req.path, 1, Len(SortAndLimit(call))) = SortAndLimit(call)
        /\ HasParam(req.path, "submolt") <=> (call.opt # Undefined /\ call.opt # Str(EmptyString))
        /\ ~HasParam(req.path, "submolt") => req.path = SortAndLimit(call)
        /\ HasParam(req.path, "submolt") =>
               SubSeq(req.path, Len(SortAndLimit(call)) + 1, Len(SortAndLimit(call)) + 3)
                   = <<"&", "submolt", "=">>
        /\ (call.opt = Undefined /\ call.sort = "new" /\ call.limit = 5) =>
               req.path = <<"/", "posts", "?", "sort", "=", "new", "&", "limit", "=", "5">>

C15_Witness ==
    /\ Issued
    /\ call.m = "getPosts"
    /\ call.opt = Str(<<"x">>)
    /\ call.sort = "new"
    /\ call.limit = 5
    /\ req.path = <<"/", "posts", "?", "sort", "=", "new", "&", "limit", "=", "5",
                    "&", "submolt", "=", "x">>

\* What a server reads back from a form-encoded value.
FormDecode(v) ==
    [i \in 1..Len(v) |->
        CASE v[i] = "+" -> " "
          [] v[i] = "%2F" -> "/"
          [] v[i] = "%3A" -> ":"
          [] OTHER -> v[i]]

SearchHead == <<"/", "search", "?", "q", "=">>
SearchTail(c) == <<"&", "type", "=", c.type, "&", "limit", "=", ToString(c.limit)>>
\* The value of q in the path of a search request.
SentQuery == SubSeq(req.path, Len(SearchHead) + 1, Len(req.path) - Len(SearchTail(call)))

\* C16: search issues GET on /search with q, type, limit in that order; the
\* value of q is encoded (it decodes to the query, and holds no space, slash,
\* "&" or "="), so the path has the one separator of /search;
\* search('agent memory', 'posts', 10) requests
\* GET /search?q=agent+memory&type=posts&limit=10.
C16_Search ==
    (Issued /\ call.m = "search") =>
        /\ req.method = "GET"
        /\ Len(req.path) = Len(SearchHead) + Len(call.a) + Len(SearchTail(call))
        /\ SubSeq(req.path, 1, Len(SearchHead)) = SearchHead
        /\ SubSeq(req.path, Len(req.path) - Len(SearchTail(call)) + 1, Len(req.path)) = SearchTail(call)
        /\ FormDecode(SentQuery) = call.a
        /\ \A i \in 1..Len(SentQuery) : SentQuery[i] \notin {" ", "/", "&", "=", "?"}
        /\ Cardinality({i \in 1..Len(req.path) : req.path[i] = "/"}) = 1
        /\ BeforeQuery(req.path) = <<"/", "search">>
        /\ (call.a = <<"agent", " ", "memory">> /\ call.type = "posts" /\ call.limit = 10) =>
               req.path = <<"/", "search", "?", "q", "=", "agent", "+", "memory",
                            "&", "type", "=", "posts", "&", "limit", "=", "10">>

C16_Witness ==
    /\ Issued
    /\ call.m = "search"
    /\ call.a = <<"x", " ", "/">>
    /\ call.type = "posts"
    /\ call.limit = 10
    /\ req.path = <<"/", "search", "?", "q", "=", "x", "+", "%2F",
                    "&", "type", "=", "posts", "&", "limit", "=", "10">>

\* An endpoint of the remote API: a method and the segments of a path, ":"
\* standing for an identifier (:id, :name).
Endpoint(method, segments) == [method |-> method, segments |-> segments]

\* The remote API surface as the specification lists it.
ListedSurface ==
    {Endpoint("POST", <<"posts">>), Endpoint("GET", <<"posts">>),
     Endpoint("GET", <<"posts", ":">>),
     Endpoint("POST", <<"posts", ":", "comments">>), Endpoint("GET", <<"posts", ":", "comments">>),
     Endpoint("POST", <<"posts", ":", "upvote">>), Endpoint("DELETE", <<"posts", ":", "upvote">>),
     Endpoint("POST", <<"posts", ":", "downvote">>),
     Endpoint("DELETE", <<"posts", ":">>),
     Endpoint("GET", <<"agents", "me">>), Endpoint("PATCH", <<"agents", "me">>),
     Endpoint("GET", <<"agents", ":">>),
     Endpoint("GET", <<"agents", "profile">>),
     Endpoint("POST", <<"agents", ":", "follow">>), Endpoint("DELETE", <<"agents", ":", "follow">>),
     Endpoint("GET", <<"submolts">>), Endpoint("POST", <<"submolts">>),
     Endpoint("GET", <<"submolts", ":">>),
     Endpoint("POST", <<"submolts", ":", "subscribe">>),
     Endpoint("DELETE", <<"submolts", ":", "subscribe">>),
     Endpoint("GET", <<"agents", "dm", "check">>),
     Endpoint("GET", <<"agents", "dm", "conversations">>),
     Endpoint("POST", <<"agents", "dm", "send">>),
     Endpoint("POST", <<"agents", "register">>),
     Endpoint("GET", <<"agents", "status">>),
     Endpoint("GET", <<"feed">>),
     Endpoint("GET", <<"search">>)}

CommentUpvote == Endpoint("POST", <<"comments", ":", "upvote">>)

\* The path of an endpoint with the identifier put in place of ":" as it is.
RECURSIVE Fill(_, _)
Fill(segments, id) ==
    IF segments = << >> THEN << >>
    ELSE <<"/">> \o (IF Head(segments) = ":" THEN id ELSE <<Head(segments)>>)
         \o Fill(Tail(segments), id)

\* The segments of a path: the texts that follow each separator.
RECURSIVE Split(_, _, _)
Split(s, segs, cur) ==
    IF s = << >> THEN Append(segs, cur)
    ELSE IF Head(s) = "/" THEN Split(Tail(s), Append(segs, cur), << >>)
    ELSE Split(Tail(s), segs, Append(cur, Head(s)))

Segments(path) == Tail(Split(BeforeQuery(path), << >>, << >>))

\* The segments are those of the endpoint, any non-empty text for an identifier.
Matches(segments, segs) ==
    /\ Len(segs) = Len(segments)
    /\ \A i \in 1..Len(segs) :
           IF segments[i] = ":" THEN segs[i] # << >> ELSE segs[i] = <<segments[i]>>

\* The request is on that endpoint, the identifier argument taken as passed.
Reaches(e) ==
    /\ req.method = e.method
    /\ BeforeQuery(req.path) = Fill(e.segments, call.a)
    /\ (call.m \in IdMethods => ProperSegment(call.a)) => Matches(e.segments, Segments(req.path))

\* C17, as claimed: every request of a public method uses a (method, path) pair
\* of the listed surface, and no public method reaches an endpoint outside it.
C17_ListedSurface_AsClaimed ==
    Issued => \E e \in ListedSurface : Reaches(e)

\* C17, amended: every request of a public method uses a (method, path) pair of
\* the listed surface or POST /comments/:id/upvote (upvoteComment), the
\* identifier argument standing for :id or :name as it was passed; when that
\* argument is one non-empty segment the path has the segments of the endpoint.
C17_ListedSurface ==
    Issued =>
        /\ \E e \in ListedSurface \cup {CommentUpvote} : Reaches(e)
        /\ Reaches(CommentUpvote) <=> call.m = "upvoteComment"

C17_Witness ==
    /\ Issued
    /\ call.m = "upvoteComment"
    /\ call.a = <<"x">>
    /\ req.method = "POST"
    /\ req.path = <<"/", "comments", "/", "x", "/", "upvote">>

(* The command line: claims C18 to C20 (specification SpecCli) *)

\* A command is running or has run in this process.
Launched == cmd # NoCmd

RegisterPath == <<"/", "agents", "/", "register">>

\* C18: registration is the first step of use: with no API key in the
\* environment and none in the credentials file, the command register <name>
\* does not end for want of a key; it sends POST /agents/register and, the
\* call having succeeded, prints the new API key.
C18_RegisterFirst ==
    (Launched /\ cmd.name = "register" /\ ~Truthy(GetApiKey(env, file))) =>
        /\ pc # "exited"
        /\ ~(exit.done /\ fetches = 0)
        /\ req.method = "POST"
        /\ req.path = RegisterPath
        /\ (pc = "finished" /\ result.success /\ exit.code = 0) =>
               Includes(stdout, <<"API Key: ">>)

\* C19: a command that performs a remote call prints nothing and does not
\* exit while its request is in flight, sends that one request only, and when
\* the envelope returned has success false it prints a diagnostic to the error
\* stream, exits with a non-zero code and prints none of its success output.
C19_FailureExits ==
    /\ (Launched /\ pc = "awaiting") =>
           /\ fetches = 1
           /\ stdout = EmptyString
           /\ stderr = EmptyString
           /\ ~exit.done
    /\ (Launched /\ pc = "finished" /\ call # NoCall) =>
           /\ fetches = 1
           /\ outcome # NoOutcome
           /\ exit.done
           /\ ~result.success =>
                  /\ stderr # EmptyString
                  /\ exit.code # 0
                  /\ stdout = EmptyString

C19_Witness ==
    /\ Launched
    /\ cmd.name = "upvote"
    /\ pc = "finished"
    /\ outcome.kind = "response"
    /\ outcome.status = 401
    /\ ~result.success
    /\ stderr = <<"Error: 401 Unauthorized", "This is likely the known Moltbook bug (GitHub #42)">>
    /\ exit = Exited(1)

\* C20: auth without a key argument shows the configured key redacted: the
\* text printed does not contain the complete key, whatever its length.
C20_AuthRedacts ==
    (Launched /\ cmd.name = "auth" /\ ~Truthy(cmd.arg) /\ pc = "finished"
        /\ Truthy(GetApiKey(env, file))) =>
        ~Includes(stdout, GetApiKey(env, file)[1])

(* saveConfig in two processes: claim C21 (specification SpecRace) *)

\* Both calls of saveConfig have returned, their partials naming different fields.
BothSaved ==
    /\ \A p \in Procs : savers[p].pc = "done"
    /\ DOMAIN savers["p1"].partial # DOMAIN savers["p2"].partial

\* The process that wrote last.
LastWriter == CHOOSE p \in Procs : savers[p].order = 2

\* The file holds what that process saved.
Holds(p) ==
    /\ file.kind = "object"
    /\ \A f \in DOMAIN savers[p].partial :
           f \in DOMAIN file.doc /\ file.doc[f] = savers[p].partial[f][1]

\* The process read the file without the other's update in it.
ReadStale(p) ==
    \E f \in DOMAIN savers[Other(p)].partial :
        savers[p].existing[f] # savers[Other(p)].partial[f]

\* C21: saveConfig reads, merges and writes without a lock. When two calls
\* with partials naming different fields have both returned and the file is
\* whole, it is the merged document of the process that wrote last; the field
\* of the other process is in it exactly when the last writer read the file
\* after the other had written it, so a last writer that read before loses the
\* other's update; when one call began after the other had returned, both
\* fields are in the file.
C21_LastWriterWins ==
    BothSaved =>
        /\ file.kind = "object" =>
               /\ file.doc = Stringify(Merge(savers[LastWriter].existing,
                                             savers[LastWriter].partial))
               /\ Holds(LastWriter)
               /\ Holds(Other(LastWriter)) <=> ~ReadStale(LastWriter)
        /\ (\E p \in Procs : savers[p].after) =>
               /\ Holds("p1")
               /\ Holds("p2")

\* The lost update: both processes read before either wrote, and the file
\* holds the last writer's field without the first writer's.
C21_Witness ==
    /\ BothSaved
    /\ \A p \in Procs : ~savers[p].after
    /\ savers["p1"].order = 1
    /\ savers["p2"].order = 2
    /\ savers["p1"].partial = [f \in {"agentId"} |-> Str(<<"A1">>)]
    /\ savers["p2"].partial = [f \in {"apiKey"} |-> Str(<<"K2">>)]
    /\ file.kind = "object"
    /\ file.doc["apiKey"] = <<"K2">>
    /\ "agentId" \notin DOMAIN file.doc

(* The shape of the envelope: claim C22 (specification Spec) *)

\* C22: every envelope request returns has exactly one of data and error: a
\* failure carries an error message that is not empty and no data, a success
\* carries data and no error.
C22_DataOrError ==
    pc = "returned" =>
        IF envelope.success
        THEN envelope.keys = {"data"}
        ELSE /\ envelope.keys = {"error"}
             /\ envelope.error # EmptyString

====
